---- MODULE Spec2Model ----
(***************************************************************************)
(* A model of the yapf plugin manager (src/plugin_manager.py) and of the   *)
(* lifecycle that src/app.py drives through it: dependency resolution,     *)
(* discovery, enabling, extension points and the service registry.         *)
(***************************************************************************)
EXTENDS Naturals, Sequences, FiniteSets, TLC

VARIABLES
    _plugins,           \* PluginManager._plugins: plugin id -> plugin
    disabled_plugins,   \* PluginManager.disabled_plugins, by its keys
    _extension_points,  \* PluginManager._extension_points: id -> contributors
    _services,          \* PluginManager._services: id -> service
    plugin,             \* collect_plugins' loop variable `plugin`, by its id
    collected,          \* _plugins as the loaders left it, before the handler
    entry,              \* what the loader of the entry scanned last came to
    dict_order,         \* the order in which the unchanged _plugins iterates
    queue,              \* enable_plugins: the plugins still to enable
    notify,             \* enable_plugins: whether `notify` is callable
    trace,              \* the hook and notify calls of the running lifecycle
    err,                \* the exception that ended the running lifecycle
    managers,           \* how many PluginManager objects were constructed
    lookups,            \* how many get_service calls, or reads of extension
                        \* points, were made
    log,                \* per registered service id: what was registered,
                        \* what get_service invoked and what it returned;
                        \* per extension point: what its reads came to
    ret,                \* the outcome of the last resolver, service or
                        \* extension point call
    pc                  \* which part of the program is running

class_vars == <<_plugins, disabled_plugins, _extension_points, _services>>
life_vars == <<plugin, collected, entry, dict_order, queue, notify, trace, err, managers>>
call_vars == <<lookups, log, ret>>
vars == <<class_vars, life_vars, call_vars, pc>>

(***************************************************************************)
(* Bounds and the universe of plugins.                                     *)
(***************************************************************************)

\* the longest `depends` list a plugin declares
MaxDeps == 2

\* plugin ids (Plugin.id)
Ids == {"core", "ext1", "ext2"}

\* the values of Plugin.depends: ordered lists of plugin ids, repeats allowed
DepLists == UNION {[1..n -> Ids] : n \in 0..MaxDeps}

\* a plugin instance, by the metadata fields the manager reads
Plugin(id, depends, enabled) ==
    [id |-> id, depends |-> depends, enabled |-> enabled]

\* extension point ids and service ids of the fixture plugins
ExtensionPointIds == {"archivers"}
ServiceIds == {"filesystem_manager"}

\* Plugin.extension_points: the extension points a plugin's class declares
\* (core stands for the fixture's `basic` plugin)
extension_points(id) == IF id = "core" THEN {"archivers"} ELSE {}

\* Plugin.contributors: the extension points a plugin's methods contribute to
\* (ext1 stands for the fixture's `archiver` plugin)
contributors(id) == IF id = "ext1" THEN <<"archivers">> ELSE <<>>

\* the services a plugin's enable() registers
enable_services(id) == IF id = "core" THEN <<"filesystem_manager">> ELSE <<>>

\* the depends lists of the classes discovery finds: none, one, or two
\* different plugins in either order
DeclaredDepends ==
    {<<>>} \cup {<<a>> : a \in Ids}
           \cup ({<<a, b>> : a \in Ids, b \in Ids} \ {<<a, a>> : a \in Ids})

\* the plugin classes the loaders may yield; collect_plugins never reads the
\* depends of a plugin whose enabled is false, so those declare none
PluginClasses ==
    {Plugin(id, d, TRUE) : id \in Ids, d \in DeclaredDepends}
    \cup {Plugin(id, <<>>, FALSE) : id \in Ids}

(***************************************************************************)
(* Sequence helpers (Python list operations).                              *)
(***************************************************************************)

\* x in list
InSeq(x, s) == \E i \in 1..Len(s) : s[i] = x

\* the elements of a list
Range(s) == {s[i] : i \in 1..Len(s)}

\* list.remove(x): drops the first occurrence of x
Remove(s, x) ==
    IF ~InSeq(x, s) THEN s
    ELSE LET k == CHOOSE i \in 1..Len(s) :
                     s[i] = x /\ \A j \in 1..(i - 1) : s[j] # x
         IN  SubSeq(s, 1, k - 1) \o SubSeq(s, k + 1, Len(s))

\* s[:-1]
ButLast(s) == IF s = <<>> THEN <<>> ELSE SubSeq(s, 1, Len(s) - 1)

\* the position of x in a duplicate-free list, 0 when absent
Pos(x, s) == IF InSeq(x, s) THEN CHOOSE i \in 1..Len(s) : s[i] = x ELSE 0

\* every ordering of a finite set: the orders a dict may be iterated in
Orders(S) ==
    {f \in [1..Cardinality(S) -> S] : \A i, j \in 1..Cardinality(S) :
                                          i # j => f[i] # f[j]}

(***************************************************************************)
(* PluginManager.dependencies and the `plugins` property.                  *)
(***************************************************************************)

NoError == [kind |-> "none", src |-> "", dst |-> ""]

\* PluginError('Missing plugin: {id}')
MissingPlugin(id) == [kind |-> "missing", src |-> "", dst |-> id]

\* PluginError('Cyclic dependency detected: {src} --> {dst}')
CyclicDependency(src, dst) == [kind |-> "cyclic", src |-> src, dst |-> dst]

\* the local lists of one dependencies() call; `entered` logs each _resolve
ResolveStart ==
    [resolved |-> <<>>, unresolved |-> <<>>, entered |-> <<>>, err |-> NoError]

RECURSIVE _resolve(_, _, _)
RECURSIVE ResolveLoop(_, _, _, _)
RECURSIVE ResolveLoopRevisits(_, _, _, _)
RECURSIVE ResolveLoopSkipsCycles(_, _, _, _)
RECURSIVE ResolveLoopSkipsMissing(_, _, _, _)

\* ResolveLoop without its `if dep in unresolved: raise`: a dependency that is
\* still being resolved is passed over
ResolveLoopSkipsCycles(table, id, deps, st) ==
    IF deps = <<>> \/ st.err.kind # "none" THEN st
    ELSE LET dep == Head(deps)
         IN  IF dep \notin DOMAIN table
             THEN [st EXCEPT !.err = MissingPlugin(dep)]
             ELSE IF ~InSeq(dep, st.resolved) /\ ~InSeq(dep, st.unresolved)
                  THEN ResolveLoopSkipsCycles(table, id, Tail(deps),
                                              _resolve(table, dep, st))
                  ELSE ResolveLoopSkipsCycles(table, id, Tail(deps), st)

\* ResolveLoop without its `if dep not in self._plugins: raise`: a dependency
\* that is no plugin of the table is passed over
ResolveLoopSkipsMissing(table, id, deps, st) ==
    IF deps = <<>> \/ st.err.kind # "none" THEN st
    ELSE LET dep == Head(deps)
         IN  IF dep \notin DOMAIN table
             THEN ResolveLoopSkipsMissing(table, id, Tail(deps), st)
             ELSE IF ~InSeq(dep, st.resolved)
                  THEN IF InSeq(dep, st.unresolved)
                       THEN [st EXCEPT !.err = CyclicDependency(id, dep)]
                       ELSE ResolveLoopSkipsMissing(table, id, Tail(deps),
                                                    _resolve(table, dep, st))
                  ELSE ResolveLoopSkipsMissing(table, id, Tail(deps), st)

\* ResolveLoop without its `if dep not in resolved` test: a dependency that is
\* already resolved is resolved again
ResolveLoopRevisits(table, id, deps, st) ==
    IF deps = <<>> \/ st.err.kind # "none" THEN st
    ELSE LET dep == Head(deps)
         IN  IF dep \notin DOMAIN table
             THEN [st EXCEPT !.err = MissingPlugin(dep)]
             ELSE IF InSeq(dep, st.unresolved)
                  THEN [st EXCEPT !.err = CyclicDependency(id, dep)]
                  ELSE ResolveLoopRevisits(table, id, Tail(deps),
                                           _resolve(table, dep, st))

\* the body of `for dep in dependencies:` over the deps still to visit
ResolveLoop(table, id, deps, st) ==
    IF deps = <<>> \/ st.err.kind # "none" THEN st
    ELSE LET dep == Head(deps)
         IN  IF dep \notin DOMAIN table
             THEN [st EXCEPT !.err = MissingPlugin(dep)]
             ELSE IF ~InSeq(dep, st.resolved)
                  THEN IF InSeq(dep, st.unresolved)
                       THEN [st EXCEPT !.err = CyclicDependency(id, dep)]
                       ELSE ResolveLoop(table, id, Tail(deps),
                                        _resolve(table, dep, st))
                  ELSE ResolveLoop(table, id, Tail(deps), st)

\* _resolve without its `resolved.append(id)`: a plugin whose dependencies
\* were all resolved is not remembered as resolved
_resolve_forgets(table, id, st) ==
    LET s1 == [st EXCEPT !.unresolved = Append(@, id),
                         !.entered = Append(@, id)]
    IN  IF id \notin DOMAIN table
        THEN [s1 EXCEPT !.err = MissingPlugin(id)]
        ELSE LET s2 == ResolveLoop(table, id, table[id].depends, s1)
             IN  IF s2.err.kind # "none" THEN s2
                 ELSE [s2 EXCEPT !.unresolved = Remove(@, id)]

\* dependencies._resolve(id)
_resolve(table, id, st) ==
    LET s1 == [st EXCEPT !.unresolved = Append(@, id),
                         !.entered = Append(@, id)]
    IN  IF id \notin DOMAIN table
        THEN [s1 EXCEPT !.err = MissingPlugin(id)]
        ELSE LET s2 == ResolveLoop(table, id, table[id].depends, s1)
             IN  IF s2.err.kind # "none" THEN s2
                 ELSE [s2 EXCEPT !.resolved = Append(@, id),
                                 !.unresolved = Remove(@, id)]

\* PluginManager.dependencies(id, include_self): the error raised, or the list
dependencies(table, id, include_self) ==
    LET st == _resolve(table, id, ResolveStart)
    IN  IF st.err.kind # "none"
        THEN [err |-> st.err, value |-> <<>>, entered |-> st.entered]
        ELSE [err |-> NoError,
              value |-> IF include_self THEN st.resolved
                        ELSE ButLast(st.resolved),
              entered |-> st.entered]

\* ExtendNew without its `not in sorted_plugins` test
ExtendAll(sorted, deps) == sorted \o deps

RECURSIVE ExtendNew(_, _)
\* `if plugins[dep] not in sorted_plugins: sorted_plugins.append(plugins[dep])`
ExtendNew(sorted, deps) ==
    IF deps = <<>> THEN sorted
    ELSE ExtendNew(IF InSeq(Head(deps), sorted) THEN sorted
                   ELSE Append(sorted, Head(deps)),
                   Tail(deps))

RECURSIVE SortLoop(_, _, _)
\* the loop `for id in plugins:` of sort(), over the ids still to visit
SortLoop(table, order, sorted) ==
    IF order = <<>> THEN [err |-> NoError, value |-> sorted]
    ELSE LET d == dependencies(table, Head(order), TRUE)
         IN  IF d.err.kind # "none" THEN [err |-> d.err, value |-> <<>>]
             ELSE SortLoop(table, Tail(order), ExtendNew(sorted, d.value))

\* the `plugins` property: sort() run over the table, iterated in `order`;
\* plugins are named by the ids they are stored under
sort(table, order) == SortLoop(table, order, <<>>)

(***************************************************************************)
(* Graph vocabulary for the properties.                                    *)
(***************************************************************************)

\* the ids id depends on directly
Deps(table, id) == IF id \in DOMAIN table THEN Range(table[id].depends) ELSE {}

RECURSIVE ReachFrom(_, _, _)
\* the ids reachable from the set `front` over declared dependencies
ReachFrom(table, front, seen) ==
    LET new == (UNION {Deps(table, x) : x \in front}) \ seen
    IN  IF new = {} THEN seen ELSE ReachFrom(table, new, seen \cup new)

\* the transitive dependencies of id (id itself only if it is on a cycle)
TransDeps(table, id) == ReachFrom(table, {id}, {})

\* every declared dependency is a plugin of the table
Closed(table) == \A id \in DOMAIN table : Deps(table, id) \subseteq DOMAIN table

\* no plugin depends on itself, directly or through a chain
Acyclic(table) == \A id \in DOMAIN table : id \notin TransDeps(table, id)

\* s has no element twice
NoDup(s) == \A i, j \in 1..Len(s) : i # j => s[i] # s[j]

\* in s every plugin comes after all the plugins it depends on
DepsFirst(table, s) ==
    \A i \in 1..Len(s) : \A d \in Deps(table, s[i]) :
        \E j \in 1..(i - 1) : s[j] = d

(***************************************************************************)
(* The resolver on its own: any plugin table, any query.                   *)
(***************************************************************************)

\* the table holding the plugins of S, each with the depends list d gives it
TableOf(S, d) == [id \in S |-> Plugin(id, d[id], TRUE)]

NoCall == [op |-> "none", id |-> "", include_self |-> TRUE, order |-> <<>>,
           err |-> NoError, value |-> <<>>, entered |-> <<>>]

\* the state of a process that never constructed a manager
LifeIdle ==
    /\ plugin = "None"
    /\ collected = <<>>
    /\ entry = "None"
    /\ dict_order = <<>>
    /\ queue = <<>>
    /\ notify = FALSE
    /\ trace = <<>>
    /\ err = NoError
    /\ managers = 0

InitResolve ==
    /\ disabled_plugins = {}
    /\ _extension_points = <<>>
    /\ _services = <<>>
    /\ LifeIdle
    /\ lookups = 0
    /\ log = <<>>
    /\ \E S \in SUBSET Ids : \E d \in [S -> DepLists] :
           _plugins = TableOf(S, d)
    /\ ret = NoCall
    /\ pc = "resolver"

\* a call of manager.dependencies(id, include_self)
CallDependencies(id, include_self) ==
    /\ pc = "resolver"
    /\ LET d == dependencies(_plugins, id, include_self)
       IN  ret' = [op |-> "dependencies", id |-> id,
                   include_self |-> include_self, order |-> <<>>,
                   err |-> d.err, value |-> d.value, entered |-> d.entered]
    /\ pc' = "returned"
    /\ UNCHANGED <<class_vars, life_vars, lookups, log>>

\* a read of manager.plugins, the dict iterated in some order
ReadPlugins(order) ==
    /\ pc = "resolver"
    /\ LET s == sort(_plugins, order)
       IN  ret' = [op |-> "plugins", id |-> "", include_self |-> TRUE,
                   order |-> order, err |-> s.err, value |-> s.value,
                   entered |-> <<>>]
    /\ pc' = "returned"
    /\ UNCHANGED <<class_vars, life_vars, lookups, log>>

\* the attributes of the function object that `def sort():` makes: every read
\* of the property makes a new one, and nothing has set an attribute on it
\* when `hasattr(sort, '_sorted_plugins')` is evaluated
sort_attributes == {}

\* the `plugins` property: sort() runs unless sort has a `_sorted_plugins`
\* attribute, whose value `kept` is returned otherwise
plugins(table, order, kept) ==
    IF "_sorted_plugins" \in sort_attributes
    THEN [ran |-> FALSE, err |-> kept.err, value |-> kept.value]
    ELSE LET s == sort(table, order)
         IN  [ran |-> TRUE, err |-> s.err, value |-> s.value]

\* the read of manager.plugins that follows another read: of the unchanged
\* table when the read before returned; after `self._plugins.pop(plugin.id)`
\* of the handler of collect_plugins, which runs when the read before raised.
\* The plugins that stay iterate in the order they had.
ReadPluginsAgain(removed) ==
    /\ pc = "returned"
    /\ ret.op = "plugins"
    /\ IF ret.err.kind = "none" THEN removed = "None"
       ELSE removed \in DOMAIN _plugins
    /\ _plugins' = [x \in DOMAIN _plugins \ {removed} |-> _plugins[x]]
    /\ LET order == Remove(ret.order, removed)
           r == plugins(_plugins', order, [err |-> ret.err, value |-> ret.value])
       IN  ret' = [op |-> "plugins_again", id |-> removed,
                   include_self |-> TRUE, order |-> order, err |-> r.err,
                   value |-> r.value, entered |-> <<>>, ran |-> r.ran,
                   first |-> ret.value]
    /\ pc' = "reread"
    /\ UNCHANGED <<disabled_plugins, _extension_points, _services, life_vars,
                   lookups, log>>

NextResolve ==
    \/ \E id \in Ids, include_self \in BOOLEAN :
           CallDependencies(id, include_self)
    \/ \E order \in Orders(DOMAIN _plugins) : ReadPlugins(order)
    \/ \E removed \in DOMAIN _plugins \cup {"None"} : ReadPluginsAgain(removed)

SpecResolve == InitResolve /\ [][NextResolve]_vars

\* C1: on a table whose declared dependencies are all present and acyclic,
\* dependencies(id) returns, without repeats, exactly id and its transitive
\* dependencies, every plugin after all the plugins it depends on and id last;
\* dependencies(id, include_self=False) returns that sequence without id.
C1_DependenciesOrdered ==
    (/\ ret.op = "dependencies"
     /\ ret.id \in DOMAIN _plugins
     /\ Closed(_plugins)
     /\ Acyclic(_plugins))
    => /\ ret.err = NoError
       /\ NoDup(ret.value)
       /\ DepsFirst(_plugins, ret.value)
       /\ ret.include_self =>
              /\ Range(ret.value) = {ret.id} \cup TransDeps(_plugins, ret.id)
              /\ ret.value[Len(ret.value)] = ret.id
       /\ ~ret.include_self =>
              /\ Range(ret.value) = TransDeps(_plugins, ret.id)
              /\ Append(ret.value, ret.id)
                     = dependencies(_plugins, ret.id, TRUE).value

\* C1 witness: dependencies("ext2") on the chain core <- ext1 <- ext2, and on a
\* table where ext2 lists both core and ext1, returned core, ext1, ext2
C1_Witness ==
    /\ ret.op = "dependencies"
    /\ ret.id = "ext2"
    /\ ret.include_self
    /\ DOMAIN _plugins = Ids
    /\ _plugins["core"].depends = <<>>
    /\ _plugins["ext1"].depends = <<"core">>
    /\ _plugins["ext2"].depends = <<"ext1", "core">>
    /\ ret.value = <<"core", "ext1", "ext2">>

\* C2: whenever the `plugins` property returns, the load order holds every
\* plugin of the table exactly once, each after all the plugins it depends on,
\* whatever order the table is iterated in; it returns whenever the table's
\* dependencies are all present and acyclic.
C2_LoadOrderTopological ==
    ret.op = "plugins"
    => /\ ret.err = NoError =>
              /\ NoDup(ret.value)
              /\ Range(ret.value) = DOMAIN _plugins
              /\ DepsFirst(_plugins, ret.value)
       /\ (Closed(_plugins) /\ Acyclic(_plugins)) => ret.err = NoError

\* C2 witness: the table iterated as ext2, ext1, core gave core, ext1, ext2
C2_Witness ==
    /\ ret.op = "plugins"
    /\ ret.err = NoError
    /\ ret.order = <<"ext2", "ext1", "core">>
    /\ ret.value = <<"core", "ext1", "ext2">>
    /\ _plugins["ext2"].depends = <<"core", "ext1">>

(***************************************************************************)
(* Discovery: PluginManager.__init__ and collect_plugins.                  *)
(***************************************************************************)

\* how many managers one process constructs
MaxManagers == 1

\* Application.start mutated to enable the plugins before configuring them
StartOrderEnableFirst ==
    <<"find_plugins", "enable_plugins", "configure_plugins">>

\* the manager calls of Application.start, in the order it makes them
StartOrder == <<"find_plugins", "configure_plugins", "enable_plugins">>

\* where Application.start stands once `call` has returned: at its next call,
\* or "started" after the last
Then(call) ==
    LET k == CHOOSE i \in 1..Len(StartOrder) : StartOrder[i] = call
    IN  IF k = Len(StartOrder) THEN "started" ELSE StartOrder[k + 1]

\* dict.setdefault(key, value) on a dict modelled as a function
SetDefault(d, k, v) ==
    IF k \in DOMAIN d THEN d
    ELSE [x \in DOMAIN d \cup {k} |-> IF x = k THEN v ELSE d[x]]

\* d[k] = v
SetItem(d, k, v) == [x \in DOMAIN d \cup {k} |-> IF x = k THEN v ELSE d[x]]

\* d without key k (dict.pop, del d[k])
DelItem(d, k) == [x \in DOMAIN d \ {k} |-> d[x]]

\* a bound contributor method of plugin `id` tagged with extension point `ep`
Contributor(id, ep) == [plugin |-> id, target |-> ep]

\* register_extension_points that leaves the plugin's extension points to be
\* registered later
register_extension_points_later(eps, id) == eps

\* Plugin.register_extension_points: register_extension_point sets
\* _extension_points[id] = [] for each extension point the plugin declares
register_extension_points(eps, id) ==
    [x \in DOMAIN eps \cup extension_points(id) |->
        IF x \in extension_points(id) THEN <<>> ELSE eps[x]]

RECURSIVE RegisterLoop(_, _, _)

\* the loop registering a contributor under a target that is not registered
RegisterLoopCreates(eps, id, targets) ==
    IF targets = <<>> THEN [err |-> NoError, eps |-> eps]
    ELSE LET ep == Head(targets)
         IN  RegisterLoop(
                 SetItem(eps, ep,
                         Append(IF ep \in DOMAIN eps THEN eps[ep] ELSE <<>>,
                                Contributor(id, ep))),
                 id, Tail(targets))

\* the loop of Plugin.register_contributors over the tagged methods left
RegisterLoop(eps, id, targets) ==
    IF targets = <<>> THEN [err |-> NoError, eps |-> eps]
    ELSE LET ep == Head(targets)
         IN  IF ep \notin DOMAIN eps
             THEN [err |-> [kind |-> "unknown_extension_point",
                            src |-> id, dst |-> ep],
                   eps |-> eps]
             ELSE RegisterLoop(
                      [eps EXCEPT ![ep] = Append(@, Contributor(id, ep))],
                      id, Tail(targets))

\* Plugin.register_contributors
register_contributors(eps, id) == RegisterLoop(eps, id, contributors(id))

RECURSIVE RegisterAll(_, _)
\* `for plugin in self.plugins: plugin.register_contributors()`
RegisterAll(eps, order) ==
    IF order = <<>> THEN [err |-> NoError, eps |-> eps]
    ELSE LET r == register_contributors(eps, Head(order))
         IN  IF r.err.kind # "none" THEN r
             ELSE RegisterAll(r.eps, Tail(order))

Init ==
    /\ _plugins = <<>>
    /\ disabled_plugins = {}
    /\ _extension_points = <<>>
    /\ _services = <<>>
    /\ LifeIdle
    /\ lookups = 0
    /\ log = <<>>
    /\ ret = NoCall
    /\ pc = "idle"

\* PluginManager(search_path), up to the first loader call, by a process that
\* stands at one of `from` and has constructed fewer than `limit` managers.
\* `self._plugins = PluginManager._plugins`: the tables are those of the class
Construct(from, limit) ==
    /\ pc \in from
    /\ managers < limit
    /\ managers' = managers + 1
    /\ plugin' = "None"
    /\ collected' = <<>>
    /\ entry' = "None"
    /\ dict_order' = <<>>
    /\ queue' = <<>>
    /\ notify' = FALSE
    /\ trace' = <<>>
    /\ err' = NoError
    /\ pc' = "collect"
    /\ UNCHANGED <<class_vars, call_vars>>

\* a manager constructed before any other, after Application.start returned
\* or after a constructor raised
NewManager == Construct({"idle", "started", "failed"}, MaxManagers)

\* a directory or archive entry of the search path: the classes its
\* plugin_definitions module defines, and whether importing the module or
\* instantiating one of the classes raises
Entry(kind, defines, fails) ==
    [kind |-> kind, defines |-> defines, fails |-> fails]

\* the plugin of the fixture's single-file unit (plugins/dummy_file.py), for
\* which ext2 stands
FilePlugin == Plugin("ext2", <<>>, TRUE)

\* the entries whose scan may come to nothing: a package or an archive whose
\* definitions module raises after defining a plugin class, and a single file
VoidEntries ==
    {Entry(k, <<FilePlugin>>, TRUE) : k \in {"package", "zip"}}
    \cup {Entry("file", <<FilePlugin>>, FALSE)}

\* a loader that returns the classes made before the failure
loader_keeps_partial(e) ==
    IF e.kind \in {"package", "zip"} THEN e.defines ELSE <<>>

\* loader(plugin_path) as collect_plugins chooses it: _package_plugin_loader
\* for a directory, _zip_plugin_loader for a .zip file, `lambda _: ()` for
\* any other file; the two loaders return () when anything raises
loader(e) ==
    IF e.kind \in {"package", "zip"}
    THEN IF e.fails THEN <<>> ELSE e.defines
    ELSE <<>>

\* what is known of an entry once its loader returned
Outcome(e) ==
    IF e.kind \in {"package", "zip"}
    THEN IF e.fails THEN "error" ELSE "loaded"
    ELSE e.kind

\* the loop body without the test of plugin.enabled
TurnIgnoresEnabled(p) ==
    /\ plugin' = p.id
    /\ _plugins' = SetDefault(_plugins, p.id, p)
    /\ _extension_points' = register_extension_points(_extension_points, p.id)
    /\ UNCHANGED disabled_plugins

\* the body of `for plugin in loader(plugin_path):` for the plugin p
Turn(p) ==
    /\ plugin' = p.id
    /\ IF p.enabled
       THEN /\ _plugins' = SetDefault(_plugins, p.id, p)
            /\ _extension_points' =
                   register_extension_points(_extension_points, p.id)
            /\ UNCHANGED disabled_plugins
       ELSE /\ disabled_plugins' = disabled_plugins \cup {p.id}
            /\ UNCHANGED <<_plugins, _extension_points>>

\* one turn of `for filename in os.listdir(path):` with the entry e, whose
\* loader yields one plugin at most
Scan(e) ==
    /\ pc = "collect"
    /\ entry' = Outcome(e)
    /\ IF loader(e) = <<>>
       THEN UNCHANGED <<_plugins, disabled_plugins, _extension_points, plugin>>
       ELSE Turn(Head(loader(e)))
    /\ UNCHANGED <<_services, collected, dict_order, queue, notify, trace,
                   err, managers, call_vars, pc>>

\* the scan of a package or archive that defines the plugin p and loads
Discover(p) == Scan(Entry("package", <<p>>, FALSE))

\* the constructor ends with exception e, the class-level state as left
Raise(e, table, disabled, eps) ==
    /\ _plugins' = table
    /\ disabled_plugins' = disabled
    /\ _extension_points' = eps
    /\ err' = e
    /\ pc' = "failed"
    /\ plugin' = "None"
    /\ entry' = "None"
    /\ UNCHANGED dict_order

\* the last statement of collect_plugins, the table iterating in `order`
RegisterContributors(table, disabled, order) ==
    LET s == sort(table, order)
        r == RegisterAll(_extension_points, s.value)
    IN  IF s.err.kind # "none"
        THEN Raise(s.err, table, disabled, _extension_points)
        ELSE IF r.err.kind # "none"
             THEN Raise(r.err, table, disabled, r.eps)
             ELSE /\ _plugins' = table
                  /\ disabled_plugins' = disabled
                  /\ _extension_points' = r.eps
                  /\ dict_order' = order
                  /\ err' = NoError
                  /\ plugin' = "None"
                  /\ entry' = "None"
                  /\ pc' = Then("find_plugins")

\* the rest of collect_plugins once the loaders are exhausted: the handler
\* that disables `plugin` when the load order cannot be computed, then the
\* registration of contributors. o1 is the order _plugins iterates in, o2 the
\* order it iterates in once the handler has popped a plugin from it.
EndCollect(o1, o2) ==
    /\ pc = "collect"
    /\ collected' = _plugins
    /\ IF sort(_plugins, o1).err.kind = "none"
       THEN RegisterContributors(_plugins, disabled_plugins, o1)
       ELSE IF plugin = "None"
            THEN Raise([kind |-> "UnboundLocalError", src |-> "", dst |-> ""],
                       _plugins, disabled_plugins, _extension_points)
            ELSE IF plugin \notin DOMAIN _plugins
                 THEN Raise([kind |-> "KeyError", src |-> "", dst |-> plugin],
                            _plugins, disabled_plugins, _extension_points)
                 ELSE RegisterContributors(DelItem(_plugins, plugin),
                                           disabled_plugins \cup {plugin}, o2)
    /\ UNCHANGED <<_services, queue, notify, trace, managers, call_vars>>

(***************************************************************************)
(* The lifecycle Application.start drives: configure, then enable.         *)
(***************************************************************************)

Event(ev, id, flag) == [ev |-> ev, plugin |-> id, flag |-> flag]

\* the load order the `plugins` property returns for the unchanged table
LoadOrder == sort(_plugins, dict_order).value

RECURSIVE ConfigureAll(_)
\* configure() called on each plugin of the load order
ConfigureAll(order) ==
    IF order = <<>> THEN <<>>
    ELSE <<Event("configure", Head(order), FALSE)>> \o ConfigureAll(Tail(order))

\* PluginManager.configure_plugins()
ConfigurePlugins ==
    /\ pc = "configure_plugins"
    /\ trace' = trace \o ConfigureAll(LoadOrder)
    /\ pc' = Then("configure_plugins")
    /\ UNCHANGED <<class_vars, plugin, collected, entry, dict_order, queue, notify, err,
                   managers, call_vars>>

\* where enable_plugins stands with the plugins of q still to enable
LoopHead(q, n) ==
    IF q = <<>> THEN Then("enable_plugins")
    ELSE IF n THEN "notify_pre" ELSE "enable"

\* enable_plugins iterating self._plugins where the code reads self.plugins
EnablePluginsUnsorted(n) ==
    /\ pc = "enable_plugins"
    /\ queue' = dict_order
    /\ notify' = n
    /\ pc' = LoopHead(dict_order, n)
    /\ UNCHANGED <<class_vars, plugin, collected, entry, dict_order, trace, err,
                   managers, call_vars>>

\* enable_plugins(notify): the read of self.plugins that starts the loop
EnablePlugins(n) ==
    /\ pc = "enable_plugins"
    /\ queue' = LoadOrder
    /\ notify' = n
    /\ pc' = LoopHead(LoadOrder, n)
    /\ UNCHANGED <<class_vars, plugin, collected, entry, dict_order, trace, err,
                   managers, call_vars>>

\* notify(True, plugin) where the code calls notify(False, plugin)
NotifyAboutAsEnabled ==
    /\ pc = "notify_pre"
    /\ trace' = Append(trace, Event("notify", Head(queue), TRUE))
    /\ pc' = "enable"
    /\ UNCHANGED <<class_vars, plugin, collected, entry, dict_order, queue, notify,
                   err, managers, call_vars>>

\* notify(False, plugin)
NotifyAbout ==
    /\ pc = "notify_pre"
    /\ trace' = Append(trace, Event("notify", Head(queue), FALSE))
    /\ pc' = "enable"
    /\ UNCHANGED <<class_vars, plugin, collected, entry, dict_order, queue, notify,
                   err, managers, call_vars>>

\* a service value: what it is, whether Python's callable() holds of it, and
\* which object of its kind it is (0: made by the caller; n: the n-th object
\* a call produced)
Value(obj, callable, serial) ==
    [obj |-> obj, callable |-> callable, serial |-> serial]

\* PluginError('Existing service: {id}')
ExistingService(id) == [kind |-> "existing_service", src |-> "", dst |-> id]

\* PluginError('Service not found: {id}')
ServiceNotFound(id) == [kind |-> "service_not_found", src |-> "", dst |-> id]

\* register_service that stores the service whether or not the id is taken
register_service_overwrites(services, id, service) ==
    [err |-> NoError, services |-> SetItem(services, id, service)]

\* PluginManager.register_service(id, service): the error raised, and the
\* service table as the call leaves it
register_service(services, id, service) ==
    IF id \in DOMAIN services
    THEN [err |-> ExistingService(id), services |-> services]
    ELSE [err |-> NoError, services |-> SetItem(services, id, service)]

\* PluginManager.unregister_service(id)
unregister_service(services, id) ==
    IF id \notin DOMAIN services
    THEN [err |-> ServiceNotFound(id), services |-> services]
    ELSE [err |-> NoError, services |-> DelItem(services, id)]

RECURSIVE RegisterServices(_, _, _)
\* the register_service calls of one enable(), which the first error ends
RegisterServices(services, id, ids) ==
    IF ids = <<>> THEN [err |-> NoError, services |-> services]
    ELSE LET r == register_service(services, Head(ids),
                                   Value("object", FALSE, 0))
         IN  IF r.err.kind # "none" THEN r
             ELSE RegisterServices(r.services, id, Tail(ids))

\* plugin.enable()
Enable ==
    /\ pc = "enable"
    /\ trace' = Append(trace, Event("enable", Head(queue), FALSE))
    /\ LET r == RegisterServices(_services, Head(queue),
                                 enable_services(Head(queue)))
       IN  /\ _services' = r.services
           /\ err' = r.err
           /\ IF r.err.kind # "none"
              THEN pc' = "failed" /\ UNCHANGED queue
              ELSE IF notify
                   THEN pc' = "notify_post" /\ UNCHANGED queue
                   ELSE /\ queue' = Tail(queue)
                        /\ pc' = LoopHead(Tail(queue), notify)
    /\ UNCHANGED <<_plugins, disabled_plugins, _extension_points, plugin,
                   collected, entry, dict_order, notify, managers, call_vars>>

\* notify(True, plugin)
NotifyEnabled ==
    /\ pc = "notify_post"
    /\ trace' = Append(trace, Event("notify", Head(queue), TRUE))
    /\ queue' = Tail(queue)
    /\ pc' = LoopHead(Tail(queue), notify)
    /\ UNCHANGED <<class_vars, plugin, collected, entry, dict_order, notify, err,
                   managers, call_vars>>

Next ==
    \/ NewManager
    \/ \E p \in PluginClasses : Discover(p)
    \/ \E o1 \in Orders(DOMAIN _plugins) :
           \E o2 \in IF sort(_plugins, o1).err.kind = "none" THEN {o1}
                      ELSE Orders(DOMAIN _plugins \ {plugin}) :
               EndCollect(o1, o2)
    \/ ConfigurePlugins
    \/ \E n \in BOOLEAN : EnablePlugins(n)
    \/ NotifyAbout
    \/ Enable
    \/ NotifyEnabled

Spec == Init /\ [][Next]_vars

(***************************************************************************)
(* Discovery on its own, over search paths that also hold entries whose    *)
(* scan comes to nothing.                                                  *)
(***************************************************************************)

\* the classes the packages and archives of these search paths define
ScanClasses ==
    {Plugin(id, d, TRUE) : id \in Ids, d \in {<<>>, <<"core">>}}
    \cup {Plugin(id, <<>>, FALSE) : id \in Ids}

\* the entries of these search paths
ScanEntries ==
    {Entry(k, <<p>>, FALSE) : k \in {"package", "zip"}, p \in ScanClasses}
    \cup VoidEntries

NextScan ==
    \/ NewManager
    \/ \E e \in ScanEntries : Scan(e)
    \/ \E o1 \in Orders(DOMAIN _plugins) :
           \E o2 \in IF sort(_plugins, o1).err.kind = "none" THEN {o1}
                      ELSE Orders(DOMAIN _plugins \ {plugin}) :
               EndCollect(o1, o2)

SpecScan == Init /\ [][NextScan]_vars

(***************************************************************************)
(* Several managers in one process: a manager is constructed, and once its *)
(* constructor has returned another one is.                                *)
(***************************************************************************)

\* the managers the process constructs
MaxShared == 2

NextManagers ==
    \/ Construct({"idle", Then("find_plugins")}, MaxShared)
    \/ \E e \in ScanEntries : Scan(e)
    \/ \E o1 \in Orders(DOMAIN _plugins) :
           \E o2 \in IF sort(_plugins, o1).err.kind = "none" THEN {o1}
                      ELSE Orders(DOMAIN _plugins \ {plugin}) :
               EndCollect(o1, o2)

SpecManagers == Init /\ [][NextManagers]_vars

(***************************************************************************)
(* The service registry on its own.                                        *)
(***************************************************************************)

\* how many get_service calls one run makes
MaxLookups == 3

\* the ids services are registered under
RegistryIds == {"filesystem_manager", "x"}

\* what register_service is given: an object that is not callable, a service
\* that is itself callable (a function, a class), a factory of objects, a
\* factory of callable services
Services ==
    {Value("object", FALSE, 0), Value("function", TRUE, 0),
     Value("object_factory", TRUE, 0), Value("function_factory", TRUE, 0)}

\* the factories among them
Factories == {Value("object_factory", TRUE, 0), Value("function_factory", TRUE, 0)}

\* self._services.get(id) of an id that is not registered
None == Value("None", FALSE, 0)

\* service(): what calling a callable value returns, `n` naming the new object
Call(service, n) ==
    CASE service.obj = "object_factory" -> Value("object", FALSE, n)
      [] service.obj = "function_factory" -> Value("function", TRUE, n)
      [] OTHER -> Value("result", FALSE, n)

\* PluginManager.get_service(id): the table as the call leaves it, the value
\* returned, and the values the call invoked
get_service(services, id, n) ==
    LET service == IF id \in DOMAIN services THEN services[id] ELSE None
    IN  IF service.callable
        THEN [services |-> SetItem(services, id, Call(service, n)),
              value |-> Call(service, n),
              invoked |-> <<service>>]
        ELSE [services |-> services, value |-> service, invoked |-> <<>>]

ServiceCall(op, id, service, e, value, before) ==
    [op |-> op, id |-> id, service |-> service, err |-> e, value |-> value,
     before |-> before]

InitServices ==
    /\ _plugins = <<>>
    /\ disabled_plugins = {}
    /\ _extension_points = <<>>
    /\ _services = <<>>
    /\ LifeIdle
    /\ lookups = 0
    /\ log = <<>>
    /\ ret = NoCall
    /\ pc = "services"

\* manager.register_service(id, service)
RegisterService(id, service) ==
    /\ pc = "services"
    /\ LET r == register_service(_services, id, service)
       IN  /\ _services' = r.services
           /\ ret' = ServiceCall("register_service", id, service, r.err, None,
                                 _services)
           /\ log' = IF r.err.kind # "none" THEN log
                     ELSE SetItem(log, id, [registered |-> service,
                                            invoked |-> <<>>,
                                            returned |-> <<>>])
    /\ UNCHANGED <<_plugins, disabled_plugins, _extension_points, life_vars,
                   lookups, pc>>

\* manager.unregister_service(id)
UnregisterService(id) ==
    /\ pc = "services"
    /\ LET r == unregister_service(_services, id)
       IN  /\ _services' = r.services
           /\ ret' = ServiceCall("unregister_service", id, None, r.err, None,
                                 _services)
           /\ log' = IF r.err.kind # "none" THEN log ELSE DelItem(log, id)
    /\ UNCHANGED <<_plugins, disabled_plugins, _extension_points, life_vars,
                   lookups, pc>>

\* manager.get_service(id)
GetService(id) ==
    /\ pc = "services"
    /\ lookups < MaxLookups
    /\ lookups' = lookups + 1
    /\ LET r == get_service(_services, id, lookups + 1)
       IN  /\ _services' = r.services
           /\ ret' = ServiceCall("get_service", id, None, NoError, r.value,
                                 _services)
           /\ log' = IF id \notin DOMAIN log THEN log
                     ELSE [log EXCEPT ![id].invoked = @ \o r.invoked,
                                      ![id].returned = Append(@, r.value)]
    /\ UNCHANGED <<_plugins, disabled_plugins, _extension_points, life_vars,
                   pc>>

NextServices ==
    \/ \E id \in RegistryIds, service \in Services :
           RegisterService(id, service)
    \/ \E id \in RegistryIds : UnregisterService(id)
    \/ \E id \in RegistryIds : GetService(id)

SpecServices == InitServices /\ [][NextServices]_vars

(***************************************************************************)
(* Properties of discovery and of the lifecycle.                           *)
(***************************************************************************)

\* the loaders are exhausted and collect_plugins has returned or raised
Discovered == pc \notin {"idle", "collect"}

\* the constructor returned, so the manager exists and `plugins` can be read
Constructed ==
    \/ pc \in {"configure_plugins", "enable_plugins", "notify_pre", "enable",
               "notify_post", "started"}
    \/ pc = "failed" /\ err.kind = "existing_service"

\* id lies on a dependency cycle of the table
OnCycle(table, id) == id \in TransDeps(table, id)

\* id declares a dependency that is no plugin of the table
HasMissing(table, id) == ~(Deps(table, id) \subseteq DOMAIN table)

RECURSIVE Calls(_, _)
\* the plugins on which hook `ev` was invoked in t, in the order of the calls
Calls(ev, t) ==
    IF t = <<>> THEN <<>>
    ELSE IF Head(t).ev = ev THEN <<Head(t).plugin>> \o Calls(ev, Tail(t))
         ELSE Calls(ev, Tail(t))

\* C3: when the enabled plugins discovery collected hold a dependency cycle
\* and every declared dependency is among them, dependencies() on a plugin of
\* the cycle raises the cyclic-dependency error, no load order the manager
\* returns holds a plugin of the cycle, and enable() is invoked on none.
C3_CycleNeverLoaded ==
    (Discovered /\ Closed(collected))
    => \A id \in DOMAIN collected :
           OnCycle(collected, id)
           => /\ \A b \in BOOLEAN :
                     dependencies(collected, id, b).err.kind = "cyclic"
              /\ Constructed => ~InSeq(id, LoadOrder)
              /\ ~InSeq(id, Calls("enable", trace))

\* C3 witness: discovery collected core <-> ext1 and the constructor raised
C3_Witness ==
    /\ pc = "failed"
    /\ DOMAIN collected = {"core", "ext1"}
    /\ collected["core"].depends = <<"ext1">>
    /\ collected["ext1"].depends = <<"core">>
    /\ err.kind \in {"missing", "cyclic"}

\* C4 as claimed: dependencies() on a collected plugin that declares a
\* dependency missing from the table raises the missing-dependency error, and
\* the plugin is in no load order discovery produces.
C4_Original ==
    Discovered
    => \A id \in DOMAIN collected :
           HasMissing(collected, id)
           => /\ dependencies(collected, id, TRUE).err.kind = "missing"
              /\ Constructed => ~InSeq(id, LoadOrder)

\* C4: dependencies() on a collected plugin that declares a dependency missing
\* from the table raises an error: the missing-dependency error, or the
\* cyclic-dependency error when the depth-first walk meets a plugin of a
\* dependency cycle before it reaches the missing one; and the plugin is in no
\* load order discovery produces.
C4_MissingNeverLoaded ==
    Discovered
    => \A id \in DOMAIN collected :
           HasMissing(collected, id)
           => /\ \A b \in BOOLEAN :
                  LET e == dependencies(collected, id, b).err
                  IN  /\ e.kind \in {"missing", "cyclic"}
                      /\ e.kind = "cyclic" =>
                             \E x \in {id} \cup TransDeps(collected, id) :
                                 OnCycle(collected, x)
              /\ Constructed => ~InSeq(id, LoadOrder)

\* C4 witness: ext2 depends on the missing ext1, was discovered last, and the
\* manager was constructed with core alone in its load order
C4_Witness ==
    /\ Constructed
    /\ DOMAIN collected = {"core", "ext2"}
    /\ collected["ext2"].depends = <<"core", "ext1">>
    /\ dependencies(collected, "ext2", TRUE).err = MissingPlugin("ext1")
    /\ LoadOrder = <<"core">>
    /\ "ext2" \in disabled_plugins

\* C5 as claimed: once discovery is over, no plugin of the plugin table
\* depends, directly or through a chain, on a plugin that was discovered
\* disabled and is not in the table; none is in a load order; enable() is
\* invoked on none.
C5_DisabledCascades ==
    Discovered
    => \A b \in disabled_plugins \ DOMAIN collected :
           \A a \in Ids :
               b \in TransDeps(collected, a)
               => /\ a \notin DOMAIN _plugins
                  /\ Constructed => ~InSeq(a, LoadOrder)
                  /\ ~InSeq(a, Calls("enable", trace))

\* C6: when enable() is invoked on a plugin, enable() was invoked before, and
\* has returned, on every plugin it depends on directly or through a chain.
\* (An enable() that raises ends enable_plugins, so every call that is not the
\* last of the trace has returned.)
C6_DependenciesEnabledFirst ==
    \A i \in 1..Len(trace) :
        trace[i].ev = "enable"
        => \A d \in TransDeps(_plugins, trace[i].plugin) :
               \E j \in 1..(i - 1) :
                   trace[j] = Event("enable", d, FALSE)

\* C6 witness: the chain core <- ext1 <- ext2, iterated by the table as ext2,
\* ext1, core, had its hooks run as core, ext1, ext2
C6_Witness ==
    /\ pc = "started"
    /\ DOMAIN _plugins = Ids
    /\ _plugins["ext1"].depends = <<"core">>
    /\ _plugins["ext2"].depends = <<"ext1">>
    /\ dict_order = <<"ext2", "ext1", "core">>
    /\ Calls("enable", trace) = <<"core", "ext1", "ext2">>

RECURSIVE Expected(_, _)
\* what enable_plugins(notify) is to call for the plugins of `order`
Expected(order, n) ==
    IF order = <<>> THEN <<>>
    ELSE (IF n
          THEN <<Event("notify", Head(order), FALSE),
                 Event("enable", Head(order), FALSE),
                 Event("notify", Head(order), TRUE)>>
          ELSE <<Event("enable", Head(order), FALSE)>>)
         \o Expected(Tail(order), n)

\* s is the beginning of t
IsPrefix(s, t) == Len(s) <= Len(t) /\ SubSeq(t, 1, Len(s)) = s

\* an event of enable_plugins
IsEnableEvent(e) == e.ev \in {"notify", "enable"}

\* C7: the calls of one enable_plugins(notify) are, for each plugin of the
\* load order in turn, notify(False, p), p.enable(), notify(True, p) when
\* notify is callable and p.enable() alone when it is not: at any moment a
\* beginning of that sequence, and all of it once the call has returned; so
\* enable() is invoked once per plugin and the plugins' calls never interleave.
C7_EnableEventsInOrder ==
    LET events == SelectSeq(trace, IsEnableEvent)
    IN  /\ IsPrefix(events, Expected(LoadOrder, notify))
        /\ pc = "started" => events = Expected(LoadOrder, notify)
        /\ NoDup(Calls("enable", trace))

\* C7 witness: a returned enable_plugins(notify) over three plugins
C7_Witness ==
    /\ pc = "started"
    /\ notify
    /\ Len(LoadOrder) = Cardinality(Ids)
    /\ Len(SelectSeq(trace, IsEnableEvent)) = 3 * Cardinality(Ids)

Count(x, s) == Cardinality({i \in 1..Len(s) : s[i] = x})

\* C9 as claimed: for an id registered with a factory and looked up at least
\* once, the get_service calls invoked the factory once in all, the service
\* table holds the instance it produced, and every call returned that
\* instance.
C9_FactoryOnce ==
    \A id \in DOMAIN log :
        (log[id].registered \in Factories /\ log[id].returned # <<>>)
        => /\ Count(log[id].registered, log[id].invoked) = 1
           /\ _services[id] = log[id].returned[1]
           /\ \A i \in 1..Len(log[id].returned) :
                  log[id].returned[i] = log[id].returned[1]

\* C10: register_service on a registered id raises and unregister_service on
\* an id that is not registered raises, and either call leaves the service
\* table as it found it.
C10_FailedCallsKeepTable ==
    /\ (ret.op = "register_service" /\ ret.id \in DOMAIN ret.before)
       => /\ ret.err = ExistingService(ret.id)
          /\ _services = ret.before
    /\ (ret.op = "unregister_service" /\ ret.id \notin DOMAIN ret.before)
       => /\ ret.err = ServiceNotFound(ret.id)
          /\ _services = ret.before

\* C10 witness: a second register_service("x", ...) with another service
\* raised, and "x" kept the object first registered
C10_Witness ==
    /\ ret.op = "register_service"
    /\ ret.id = "x"
    /\ ret.err = ExistingService("x")
    /\ ret.service = Value("function", TRUE, 0)
    /\ _services["x"] = Value("object", FALSE, 0)
    /\ "filesystem_manager" \notin DOMAIN _services

(***************************************************************************)
(* Properties of discovery: registration order, failing entries, disabled  *)
(* plugins, duplicates, single files.                                      *)
(***************************************************************************)

\* every extender of a plugin of the table targets an extension point that a
\* plugin of the table declares
AllTargetsDeclared(table) ==
    \A id \in DOMAIN table : \A t \in Range(contributors(id)) :
        \E q \in DOMAIN table : t \in extension_points(q)

\* C16: the extension points of every plugin of the table are registered
\* from the moment the plugin is in the table, and while a first manager is
\* still scanning no extender is registered yet; so when every extender of the
\* accepted plugins targets an extension point some accepted plugin declares,
\* registering the extenders raises no unknown-extension-point error and a
\* discovery that returns has registered every one of them, whatever the
\* discovery order and the load order.
C16_ExtensionPointsFirst ==
    /\ \A id \in DOMAIN _plugins :
           extension_points(id) \subseteq DOMAIN _extension_points
    /\ (pc = "collect" /\ managers = 1)
       => \A ep \in DOMAIN _extension_points : _extension_points[ep] = <<>>
    /\ (Discovered /\ AllTargetsDeclared(_plugins))
       => /\ err.kind # "unknown_extension_point"
          /\ pc # "failed"
             => \A id \in DOMAIN _plugins : \A t \in Range(contributors(id)) :
                    InSeq(Contributor(id, t), _extension_points[t])

\* C16 witness: ext1 precedes core, which declares its target, in the load
\* order, and its extender is registered
C16_Witness ==
    /\ pc = "started"
    /\ DOMAIN _plugins = {"core", "ext1"}
    /\ LoadOrder = <<"ext1", "core">>
    /\ _extension_points["archivers"] = <<Contributor("ext1", "archivers")>>

\* C17: the scan of a package or archive whose definitions module raises
\* changes neither the plugin table, the disabled set, the extension points
\* nor the loop variable, and leaves discovery running, so that what follows
\* is what would have followed had the entry been absent.
C17_FailedEntryContributesNothing ==
    [][\A e \in VoidEntries :
           (e.fails /\ Scan(e))
           => /\ UNCHANGED <<class_vars, plugin, err>>
              /\ pc' = "collect"]_vars

\* C17 witness: a failing entry was scanned after the package of core, and
\* the table holds core alone
C17_Witness ==
    /\ pc = "collect"
    /\ entry = "error"
    /\ plugin = "core"
    /\ DOMAIN _plugins = {"core"}

C19_DuplicateDropped ==
    [][\A p \in PluginClasses :
           (Discover(p) /\ p.id \in DOMAIN _plugins)
           => UNCHANGED <<_plugins, disabled_plugins, _extension_points>>]_vars

\* C20 as claimed: once a single-file unit defining an enabled plugin without
\* dependencies was scanned, that plugin is in the plugin table.
C20_SingleFileAccepted ==
    entry = "file" => FilePlugin.id \in DOMAIN _plugins

(***************************************************************************)
(* Extension points on their own: registration and ExtensionPoint.__get__. *)
(***************************************************************************)

\* how many times extension points are read
MaxReads == 2

\* the ids of the fixture's extension points
PointIds == {"archivers", "application.arguments"}

\* the plugins whose contributors are registered
ExtenderPlugins == {"ext1", "ext2"}

\* the extension points the tagged methods of a plugin class target, in the
\* order the class __dict__ iterates: one method, or two with different targets
TargetLists ==
    {<<t>> : t \in PointIds}
    \cup ({<<t, u>> : t \in PointIds, u \in PointIds}
          \ {<<t, t>> : t \in PointIds})

\* a value a contributor returns: its type and, for the types Python
\* iterates, its items
Result(type, items) == [type |-> type, items |-> items]

\* the values the contributors return: lists, a str, None
Results ==
    {Result("list", <<"a", "b">>), Result("list", <<"c">>),
     Result("str", <<"a", "b">>), Result("NoneType", <<>>)}

\* hasattr(result, '__iter__'): a list has the attribute, None has not, and
\* neither has a Python 2 str although Python iterates it
HasIter(v) == v.type = "list"

\* whether Python iterates the value
Iterable(v) == v.type \in {"list", "str"}

\* TypeError('contributor method: {method} must return an iterable')
NotIterable(contributor) ==
    [kind |-> "TypeError", src |-> contributor.plugin, dst |-> contributor.target]

RECURSIVE ReadLoop(_, _, _, _)

\* the loop of __get__ extending the list at its front
ReadLoopPrepends(list, rs, i, contributions) ==
    IF i > Len(list)
    THEN [err |-> NoError, value |-> contributions, invoked |-> i - 1]
    ELSE IF ~HasIter(rs[i])
         THEN [err |-> NotIterable(list[i]), value |-> <<>>, invoked |-> i]
         ELSE ReadLoop(list, rs, i + 1, rs[i].items \o contributions)

\* the loop of __get__ passing over a result without __iter__
ReadLoopSkips(list, rs, i, contributions) ==
    IF i > Len(list)
    THEN [err |-> NoError, value |-> contributions, invoked |-> i - 1]
    ELSE IF ~HasIter(rs[i])
         THEN ReadLoop(list, rs, i + 1, contributions)
         ELSE ReadLoop(list, rs, i + 1, contributions \o rs[i].items)

\* `for contributor in extension_points.get(self.id, []):` from the i-th
\* contributor on, rs[i] being what the i-th contributor returns: the error
\* raised, the list returned, and how many contributors were called
ReadLoop(list, rs, i, contributions) ==
    IF i > Len(list)
    THEN [err |-> NoError, value |-> contributions, invoked |-> i - 1]
    ELSE IF ~HasIter(rs[i])
         THEN [err |-> NotIterable(list[i]), value |-> <<>>, invoked |-> i]
         ELSE ReadLoop(list, rs, i + 1, contributions \o rs[i].items)

\* extension_points.get(self.id, [])
Extenders(eps, ep) == IF ep \in DOMAIN eps THEN eps[ep] ELSE <<>>

\* ExtensionPoint.__get__(instance, owner) for an instance
__get__(eps, ep, rs) == ReadLoop(Extenders(eps, ep), rs, 1, <<>>)

\* PluginManager.register_extension_point(extension_point)
register_extension_point(eps, ep) == SetItem(eps, ep, <<>>)

\* the outcome of a call on the extension points
PointCall(op, id, targets, rs, r, before, retry) ==
    [op |-> op, id |-> id, targets |-> targets, results |-> rs,
     err |-> r.err, value |-> r.value, invoked |-> r.invoked,
     before |-> before, retry |-> retry]

\* what is remembered of the reads of one extension point since its
\* extender list last changed: what the first read that returned gave, whether
\* every later one gave the same, how many contributors the later reads
\* called, and whether a read raised
NoReads == [returned |-> <<>>, same |-> TRUE, again |-> 0, failed |-> FALSE]

InitExtensions ==
    /\ _plugins = <<>>
    /\ disabled_plugins = {}
    /\ _extension_points = <<>>
    /\ _services = <<>>
    /\ LifeIdle
    /\ lookups = 0
    /\ log = <<>>
    /\ ret = NoCall
    /\ pc = "extensions"

\* PluginManager.register_extension_point(extension_point)
RegisterExtensionPoint(ep) ==
    /\ pc = "extensions"
    /\ _extension_points' = register_extension_point(_extension_points, ep)
    /\ ret' = PointCall("register_extension_point", ep, <<>>, <<>>,
                        [err |-> NoError, value |-> <<>>, invoked |-> 0],
                        _extension_points, FALSE)
    /\ log' = DelItem(log, ep)
    /\ UNCHANGED <<_plugins, disabled_plugins, _services, life_vars, lookups,
                   pc>>

\* plugin.register_contributors() of a plugin whose tagged methods target
\* `targets`, called once for each plugin while an extender list stands
RegisterContributorsOf(id, targets) ==
    /\ pc = "extensions"
    /\ \A t \in Range(targets) :
           ~InSeq(Contributor(id, t), Extenders(_extension_points, t))
    /\ LET r == RegisterLoop(_extension_points, id, targets)
       IN  /\ _extension_points' = r.eps
           /\ ret' = PointCall("register_contributors", id, targets, <<>>,
                               [err |-> r.err, value |-> <<>>, invoked |-> 0],
                               _extension_points, FALSE)
           /\ log' = [ep \in {x \in DOMAIN log :
                                  Extenders(r.eps, x)
                                  = Extenders(_extension_points, x)}
                         |-> log[ep]]
    /\ UNCHANGED <<_plugins, disabled_plugins, _services, life_vars, lookups,
                   pc>>

\* a read of the extension point `ep`, the i-th contributor returning rs[i]
ReadExtensionPoint(ep, rs) ==
    /\ pc = "extensions"
    /\ lookups < MaxReads
    /\ lookups' = lookups + 1
    /\ LET r == __get__(_extension_points, ep, rs)
           old == IF ep \in DOMAIN log THEN log[ep] ELSE NoReads
       IN  /\ ret' = PointCall("read", ep, <<>>, rs, r, _extension_points,
                               old.failed)
           /\ log' = SetItem(log, ep,
                  [returned |-> IF r.err.kind = "none" /\ old.returned = <<>>
                                THEN <<r.value>>
                                ELSE old.returned,
                   same |-> /\ old.same
                            /\ \/ r.err.kind # "none"
                               \/ old.returned \in {<<>>, <<r.value>>},
                   again |-> IF old.returned = <<>> THEN 0
                             ELSE old.again + r.invoked,
                   failed |-> old.failed \/ r.err.kind # "none"])
    /\ UNCHANGED <<class_vars, life_vars, pc>>

NextExtensions ==
    \/ \E ep \in PointIds : RegisterExtensionPoint(ep)
    \/ \E id \in ExtenderPlugins, targets \in TargetLists :
           RegisterContributorsOf(id, targets)
    \/ \E ep \in PointIds :
           \E rs \in [1..Len(Extenders(_extension_points, ep)) -> Results] :
               ReadExtensionPoint(ep, rs)

SpecExtensions == InitExtensions /\ [][NextExtensions]_vars

(***************************************************************************)
(* Properties of extension points.                                         *)
(***************************************************************************)

RECURSIVE Flatten(_)
\* the items of the results rs, one result after the other
Flatten(rs) ==
    IF rs = <<>> THEN <<>> ELSE Head(rs).items \o Flatten(Tail(rs))

\* the results of a read all pass hasattr(result, '__iter__')
AllHaveIter(rs) == \A i \in 1..Len(rs) : HasIter(rs[i])

\* C11: register_contributors appends each contributor at the end of its
\* target's list, and a read that returns gives the items the extenders
\* returned, extender after extender in list order and each extender's items
\* in their own order; it returns whenever every extender returns a list, and
\* gives the empty list when there is no extender.
C11_ConcatenationInOrder ==
    /\ (ret.op = "register_contributors" /\ ret.err.kind = "none")
       => \A i \in 1..Len(ret.targets) :
              _extension_points[ret.targets[i]]
              = Append(ret.before[ret.targets[i]],
                       Contributor(ret.id, ret.targets[i]))
    /\ ret.op = "read"
       => /\ ret.err.kind = "none" => ret.value = Flatten(ret.results)
          /\ AllHaveIter(ret.results) => ret.err.kind = "none"
          /\ Extenders(ret.before, ret.id) = <<>>
             => ret.err.kind = "none" /\ ret.value = <<>>

\* C11 witness: the extenders of ext1 and ext2, registered in that order,
\* returned [a, b] and [c], and the read gave [a, b, c]
C11_Witness ==
    /\ ret.op = "read"
    /\ ret.id = "archivers"
    /\ "archivers" \in DOMAIN ret.before
    /\ ret.before["archivers"] = <<Contributor("ext1", "archivers"),
                                   Contributor("ext2", "archivers")>>
    /\ ret.results = <<Result("list", <<"a", "b">>), Result("list", <<"c">>)>>
    /\ ret.value = <<"a", "b", "c">>

\* C12 as claimed: once a read of an extension point has returned, the later
\* reads made while its extender list is unchanged invoke no extender and
\* return what the first read returned.
C12_EvaluatedOnce ==
    \A ep \in DOMAIN log :
        log[ep].returned # <<>>
        => /\ log[ep].again = 0
           /\ log[ep].same

C14_DuplicateFails ==
    (ret.op = "register_extension_point" /\ ret.id \in DOMAIN ret.before)
    => /\ ret.err.kind # "none"
       /\ _extension_points[ret.id] = ret.before[ret.id]

\* the tagged methods of the last register_contributors call whose target
\* was not registered when the call was made
UnknownTargets == {t \in Range(ret.targets) : t \notin DOMAIN ret.before}

\* the first target of that call that was not registered
FirstUnknown ==
    ret.targets[CHOOSE i \in 1..Len(ret.targets) :
                    /\ ret.targets[i] \in UnknownTargets
                    /\ \A j \in 1..(i - 1) : ret.targets[j] \notin UnknownTargets]

\* C15: register_contributors of a plugin with an extender whose target is
\* not registered raises the unknown-extension-point error for the first such
\* extender, registers no extension point for it, and leaves every such
\* extender out of every extender list.
C15_UnknownTargetRejected ==
    (ret.op = "register_contributors" /\ UnknownTargets # {})
    => /\ ret.err = [kind |-> "unknown_extension_point", src |-> ret.id,
                     dst |-> FirstUnknown]
       /\ DOMAIN _extension_points = DOMAIN ret.before
       /\ \A t \in UnknownTargets : \A ep \in DOMAIN _extension_points :
              ~InSeq(Contributor(ret.id, t), _extension_points[ep])

\* C15 witness: ext1 targets "archivers", which is registered, and then
\* "application.arguments", which is not, and the call raised
C15_Witness ==
    /\ ret.op = "register_contributors"
    /\ ret.id = "ext1"
    /\ ret.targets = <<"archivers", "application.arguments">>
    /\ DOMAIN ret.before = {"archivers"}
    /\ ret.err.kind = "unknown_extension_point"

(***************************************************************************)
(* Properties of one dependencies() call, checked under SpecResolve.       *)
(***************************************************************************)

\* C27: dependencies(id) ends on every table, with cycles, self-dependencies
\* and diamonds included, by returning a sequence or by raising 'Missing
\* plugin' or 'Cyclic dependency detected'; within the call _resolve enters no
\* plugin twice, so it is entered at most once per plugin of the table and
\* once more for an id the table lacks.
C27_EnteredAtMostOnce ==
    ret.op = "dependencies"
    => /\ ret.err.kind \in {"none", "missing", "cyclic"}
       /\ ret.entered # <<>>
       /\ ret.entered[1] = ret.id
       /\ NoDup(ret.entered)
       /\ Range(ret.entered) \subseteq DOMAIN _plugins \cup {ret.id}
       /\ ret.err.kind = "none" =>
              Range(ret.entered) = {ret.id} \cup TransDeps(_plugins, ret.id)

\* C27 witness: a diamond, ext2 reaching core both directly and through ext1;
\* core is entered once, for ext2, and passed over under ext1
C27_Witness ==
    /\ ret.op = "dependencies"
    /\ ret.id = "ext2"
    /\ DOMAIN _plugins = Ids
    /\ _plugins["core"].depends = <<>>
    /\ _plugins["ext1"].depends = <<"core">>
    /\ _plugins["ext2"].depends = <<"ext1", "core">>
    /\ ret.entered = <<"ext2", "ext1", "core">>
    /\ ret.err = NoError

(***************************************************************************)
(* Lookups of ready instances, checked under SpecServices.                 *)
(***************************************************************************)

\* C26 as claimed: get_service on an id whose entry is a ready instance (an
\* object, a function or class registered as the service, or the instance a
\* factory produced) returns that very instance, invokes nothing and leaves
\* the service table as it was; get_service on an id that is not registered
\* returns None and creates no entry.
C26_InstanceNeverInvoked ==
    /\ (ret.op = "get_service" /\ ret.id \in DOMAIN ret.before
                               /\ ret.before[ret.id] \notin Factories)
       => /\ ret.value = ret.before[ret.id]
          /\ _services = ret.before
    /\ \A id \in DOMAIN log :
           log[id].registered \notin Factories
           => /\ log[id].invoked = <<>>
              /\ \A i \in 1..Len(log[id].returned) :
                     log[id].returned[i] = log[id].registered
    /\ (ret.op = "get_service" /\ ret.id \notin DOMAIN ret.before)
       => /\ ret.value = None
          /\ _services = ret.before

(***************************************************************************)
(* Repeated reads of the load order, checked under SpecResolve.            *)
(***************************************************************************)

\* C24 as claimed: a read of `plugins` that follows a read of the unchanged
\* table does not run the dependency resolution again and returns the
\* sequence the read before returned; a read that follows the removal of a
\* plugin on a resolution failure runs it again, and what it returns does not
\* hold the removed plugin.
C24_LoadOrderCached ==
    /\ (pc = "reread" /\ ret.id = "None")
       => /\ ~ret.ran
          /\ ret.value = ret.first
    /\ (pc = "reread" /\ ret.id # "None")
       => /\ ret.ran
          /\ ~InSeq(ret.id, ret.value)

(***************************************************************************)
(* The handler of collect_plugins that disables a plugin, checked under    *)
(* Spec.                                                                   *)
(***************************************************************************)

\* C22 as claimed: the plugin that the handler of a failed load-order
\* resolution moves from the plugin table to the disabled set is one whose
\* own dependencies() fails on the table discovery collected, never one whose
\* dependencies all resolve, and the handler itself raises nothing.
C22_HandlerDisablesFailing ==
    Discovered
    => /\ \A id \in DOMAIN collected \ DOMAIN _plugins :
              /\ id \in disabled_plugins
              /\ dependencies(collected, id, TRUE).err.kind # "none"
       /\ err.kind \notin {"KeyError", "UnboundLocalError"}

(***************************************************************************)
(* A register_contributors() call that fails, checked under                *)
(* SpecExtensions.                                                         *)
(***************************************************************************)

\* C23 as claimed: a register_contributors() call that raises the
\* unknown-extension-point error leaves every extender list as it found it,
\* the extenders of the plugin processed before the failing one included.
C23_FailedRegistrationKeepsLists ==
    (ret.op = "register_contributors"
     /\ ret.err.kind = "unknown_extension_point")
    => _extension_points = ret.before

(***************************************************************************)
(* Properties of a process that constructs several managers, checked under *)
(* SpecManagers: there a second manager exists only once the constructor   *)
(* of the first has returned.                                              *)
(***************************************************************************)

\* the load order of the table can be read, whatever order the dict iterates in
Readable(table) ==
    \A o \in Orders(DOMAIN table) : sort(table, o).err = NoError

\* C21 as claimed: once the discovery of a manager has completed without
\* raising, in every state in which no constructor is running every
\* dependency declared in the plugin table is in the table, the dependency
\* graph is acyclic, and a read of the load order does not raise.
C21_TableStaysResolvable ==
    ((managers >= 2 \/ pc = Then("find_plugins")) /\ pc # "collect")
    => /\ Closed(_plugins)
       /\ Acyclic(_plugins)
       /\ Readable(_plugins)

\* C25 as claimed: a manager constructed after another one starts with an
\* empty plugin table, disabled set, extension-point table and service table,
\* and no step of that manager changes the tables the earlier one reads.
C25_ManagerOwnsTables ==
    /\ []((managers >= 2 /\ pc = "collect" /\ entry = "None"
                         /\ plugin = "None")
          => /\ _plugins = <<>>
             /\ disabled_plugins = {}
             /\ _extension_points = <<>>
             /\ _services = <<>>)
    /\ [][(managers >= 2 /\ managers' = managers) => UNCHANGED class_vars]_vars

====
